---- MODULE Spec2Model ----
(***************************************************************************)
(* Deterministic page grouping of the strict pipelines                     *)
(* (china_pipeline/grouping.py, pipeline_strict.py,                        *)
(* china_pipeline/pipeline.py).                                            *)
(*                                                                         *)
(* Strings are sequences of one-character strings, so that splitext,      *)
(* sorting, tokenizing and set(str) act on characters as in Python.        *)
(* Breakpoints and page indices keep Python's 0-based values; pages[i] of  *)
(* the code is pages[i + 1] here.                                          *)
(***************************************************************************)
EXTENDS Integers, Sequences, FiniteSets, TLC

VARIABLES
    stamp,                \* input directory: file name -> its EXIF fields and mtime
    german_text_by_base,  \* main's dict: base id -> transcription text
    args,                 \* parsed command line
    pc,                   \* position in main
    images,               \* _list_images result
    pages,                \* build_pages result
    breaks,               \* main's breaks list
    ovTrace,              \* the breakpoint lists given to / returned by apply_overrides
    groups,               \* group_pages result
    letters,              \* letters directory: group id -> [meta, text]
    run,                  \* number of the current pipeline run
    prev,                 \* what the previous run left: [groups, letters]
    german_dir,           \* transcription directory: base id -> content of its file
    ocr_calls             \* the calls of the OCR function: [run, image, out]

vars == <<stamp, german_text_by_base, args, pc, images, pages, breaks, ovTrace,
          groups, letters, run, prev, german_dir, ocr_calls>>

\* Optional[T]: None is the empty sequence, a value x is <<x>>
None == <<>>
Some(x) == <<x>>
Value(o) == o[1]

----------------------------------------------------------------------------
(* Bounds of the model *)

MaxImages == 3
MaxRuns == 2
MaxBreaks == 2

(* Program constants *)

StrictTimeGapSeconds == 180
ChinaTimeGapSeconds == 9999999

\* a float as the exact rational <<numerator, denominator>>
StrictSimThreshold == <<2, 25>>
ChinaSimThreshold == <<0, 1>>

----------------------------------------------------------------------------
(* Characters and strings *)

Range(s) == {s[i] : i \in DOMAIN s}

Max(S) == CHOOSE x \in S : \A y \in S : y <= x

\* code points of the characters the model uses
CodePoints ==
    "\t" :> 9 @@ "\n" :> 10 @@ "\f" :> 12 @@ "\r" :> 13 @@ " " :> 32 @@
    ")" :> 41 @@ "." :> 46 @@
    "0" :> 48 @@ "1" :> 49 @@ "2" :> 50 @@ "3" :> 51 @@ "4" :> 52 @@
    "5" :> 53 @@ "6" :> 54 @@ "7" :> 55 @@ "8" :> 56 @@ "9" :> 57 @@
    "J" :> 74 @@ "X" :> 88 @@ "Y" :> 89 @@
    "a" :> 97 @@ "b" :> 98 @@ "c" :> 99 @@ "d" :> 100 @@ "e" :> 101 @@
    "f" :> 102 @@ "g" :> 103 @@ "h" :> 104 @@ "i" :> 105 @@ "j" :> 106 @@
    "k" :> 107 @@ "l" :> 108 @@ "m" :> 109 @@ "n" :> 110 @@ "o" :> 111 @@
    "p" :> 112 @@ "q" :> 113 @@ "r" :> 114 @@ "s" :> 115 @@ "t" :> 116 @@
    "u" :> 117 @@ "v" :> 118 @@ "w" :> 119 @@ "x" :> 120 @@ "y" :> 121 @@
    "z" :> 122

Ord(c) == CodePoints[c]

LowerCase == "J" :> "j" @@ "X" :> "x" @@ "Y" :> "y"

\* str.lower of one character
Lower(c) == IF c \in DOMAIN LowerCase THEN LowerCase[c] ELSE c

LowerStr(s) == [i \in DOMAIN s |-> Lower(s[i])]

EndsWith(s, suffix) ==
    /\ Len(suffix) <= Len(s)
    /\ SubSeq(s, Len(s) - Len(suffix) + 1, Len(s)) = suffix

\* all orders in which the elements of a finite set can be enumerated
RECURSIVE Orders(_)
Orders(S) ==
    IF S = {} THEN {<<>>}
    ELSE UNION {{<<x>> \o o : o \in Orders(S \ {x})} : x \in S}

----------------------------------------------------------------------------
(* Inputs *)

FileNames ==
    { <<"a", ".", "j", "p", "g">>,
      <<"a", ".", "p", "n", "g">>,
      <<"b", ".", "j", "p", "g">>,
      <<"c", ".", "j", "p", "g">> }

\* names in the input directory that _list_images does not take for an image
OtherNames ==
    { <<"a", ".", "t", "x", "t">>,
      <<"j", "p", "g">> }

\* everything the input directory can hold
DirNames == FileNames \cup OtherNames

\* a gap between two capture times that exceeds the Chinese pipeline's default
LongGap == ChinaTimeGapSeconds + 1

\* capture times, in seconds
Times == {0, LongGap}

Texts ==
    { <<>>,
      <<"x">>,
      <<"X", " ", "y">> }

\* --time-gap-seconds and --sim-threshold: the defaults of pipeline_strict.py,
\* the defaults of china_pipeline/pipeline.py, and values given on the command
\* line that equal a gap and a similarity the inputs produce
Thresholds ==
    { [time_gap_seconds |-> StrictTimeGapSeconds, sim_threshold |-> StrictSimThreshold],
      [time_gap_seconds |-> ChinaTimeGapSeconds, sim_threshold |-> ChinaSimThreshold],
      [time_gap_seconds |-> LongGap, sim_threshold |-> <<1, 2>>] }

\* an override file, or the lack of one
Ov(kind, t, s, items) == [kind |-> kind, t |-> t, s |-> s, items |-> items]

\* an element of a JSON array: a string, a number, or a nested array
Item(t, s) == [t |-> t, s |-> s]
StrItem(s) == Item("str", s)

\* kind: "nopath" (--overrides not given), "missing" (no such file), "badjson"
\* (json.load raises), "array" (the top-level value is an array), "object";
\* for an object, t is the JSON type of its break_after member
AllOverrideFiles ==
    { Ov("nopath", "", <<>>, <<>>),
      Ov("missing", "", <<>>, <<>>),
      Ov("badjson", "", <<>>, <<>>),
      Ov("array", "", <<>>, <<>>),
      Ov("object", "absent", <<>>, <<>>),
      Ov("object", "null", <<>>, <<>>),
      Ov("object", "number", <<>>, <<>>),
      Ov("object", "string", <<"a">>, <<>>),
      Ov("object", "array", <<>>, <<StrItem(<<"a">>)>>),
      Ov("object", "array", <<>>, <<StrItem(<<"b">>), StrItem(<<"a">>)>>),
      Ov("object", "array", <<>>, <<StrItem(<<"c">>), Item("num", <<>>)>>),
      Ov("object", "array", <<>>, <<Item("list", <<>>), StrItem(<<"a">>)>>) }

\* the override files the pipeline runs are given
OverrideFiles ==
    { file \in AllOverrideFiles :
        \/ file.kind \in {"nopath", "missing", "badjson"}
        \/ file.t \in {"null", "string"}
        \/ (file.t = "array" /\ \A i \in DOMAIN file.items : file.items[i].t # "num") }

----------------------------------------------------------------------------
(* Sorting *)

\* Python's sequence comparison on tuples of integers (code points, seconds)
RECURSIVE KeyLess(_, _)
KeyLess(k1, k2) ==
    IF k2 = <<>> THEN FALSE
    ELSE IF k1 = <<>> THEN TRUE
    ELSE IF Head(k1) # Head(k2) THEN Head(k1) < Head(k2)
    ELSE KeyLess(Tail(k1), Tail(k2))

\* d holds <<key, item>> pairs; x goes after every pair whose key is not greater
RECURSIVE InsertPair(_, _)
InsertPair(d, x) ==
    IF d = <<>> THEN <<x>>
    ELSE IF KeyLess(x[1], Head(d)[1]) THEN <<x>> \o d
    ELSE <<Head(d)>> \o InsertPair(Tail(d), x)

RECURSIVE SortPairs(_)
SortPairs(d) ==
    IF d = <<>> THEN <<>>
    ELSE InsertPair(SortPairs(SubSeq(d, 1, Len(d) - 1)), d[Len(d)])

\* the items of a sequence of <<key, item>> pairs
Items(d) == [i \in DOMAIN d |-> d[i][2]]

IntKey(n) == <<n>>

\* the code points of a string
StrKey(str) == [i \in DOMAIN str |-> Ord(str[i])]

\* list.sort of a list of integers
SortInts(s) == Items(SortPairs([i \in DOMAIN s |-> <<IntKey(s[i]), s[i]>>]))

\* sorted of a list of strings
SortStrings(s) == Items(SortPairs([i \in DOMAIN s |-> <<StrKey(s[i]), s[i]>>]))

\* sorted(set(xs)) of integers
SortedSet(S) ==
    LET Rank(x) == 1 + Cardinality({y \in S : y < x})
    IN  [r \in 1..Cardinality(S) |-> CHOOSE x \in S : Rank(x) = r]

----------------------------------------------------------------------------
(* pipeline_strict.py / china_pipeline/pipeline.py: _list_images *)

ImageSuffixes ==
    { <<".", "j", "p", "g">>, <<".", "j", "p", "e", "g">>, <<".", "p", "n", "g">> }

\* f.lower().endswith((".jpg", ".jpeg", ".png"))
IsImageName(f) ==
    LET low == LowerStr(f)
    IN  \E suffix \in ImageSuffixes : EndsWith(low, suffix)

\* a variant of ListImages that keeps the order of os.listdir
ListImagesUnsorted(listing) == SelectSeq(listing, IsImageName)

\* listing is os.listdir's result, in the arbitrary order the OS gives;
\* a path is modelled by its file name (the directory prefix is common to all)
ListImages(listing) ==
    SortStrings(SelectSeq(listing, IsImageName))

\* what _list_images can return for each content of the input directory, over
\* the orders in which os.listdir can give the names (a table, computed once)
ListImagesResults ==
    [S \in SUBSET DirNames |-> {ListImages(listing) : listing \in Orders(S)}]
        @@ [S \in {} |-> {}]

----------------------------------------------------------------------------
(* grouping.py *)

\* os.path.splitext(os.path.basename(p))[0]
BaseOf(p) ==
    LET dots == {i \in DOMAIN p : p[i] = "."}
    IN  IF dots = {} THEN p
        ELSE LET d == Max(dots)
             IN  IF \A i \in 1..(d - 1) : p[i] = "." THEN p
                 ELSE SubSeq(p, 1, d - 1)

\* unicodedata.category(ch)[0] in ("L", "N")
IsWordChar(ch) ==
    ch \in {"a", "b", "c", "d", "e", "f", "g", "h", "i", "j", "k", "l", "m", "n",
            "o", "p", "q", "r", "s", "t", "u", "v", "w", "x", "y", "z",
            "J", "X", "Y",
            "0", "1", "2", "3", "4", "5", "6", "7", "8", "9"}

\* a variant of Casefold that keeps the case
CasefoldNone(s) == s

\* str.casefold
Casefold(s) == LowerStr(s)

RECURSIVE TokenizeLoop(_, _, _)
TokenizeLoop(text, buf, tokens) ==
    IF text = <<>>
    THEN IF buf # <<>> THEN Append(tokens, Casefold(buf)) ELSE tokens
    ELSE IF IsWordChar(Head(text))
         THEN TokenizeLoop(Tail(text), Append(buf, Head(text)), tokens)
         ELSE TokenizeLoop(Tail(text), <<>>,
                           IF buf # <<>> THEN Append(tokens, Casefold(buf)) ELSE tokens)

Tokenize(text) == TokenizeLoop(text, <<>>, <<>>)

\* a float result as the exact rational <<numerator, denominator>>
\* a variant of JaccardSimilarity that takes two texts without a token for equal
JaccardSimilarityEmptyAlike(a, b) ==
    LET ta == Range(Tokenize(a))
        tb == Range(Tokenize(b))
        inter == Cardinality(ta \cap tb)
        union == Cardinality(ta \cup tb)
    IN  IF ta = {} /\ tb = {} THEN <<1, 1>>
        ELSE IF ta = {} \/ tb = {} THEN <<0, 1>>
        ELSE IF union # 0 THEN <<inter, union>> ELSE <<0, 1>>

JaccardSimilarity(a, b) ==
    LET ta == Range(Tokenize(a))
        tb == Range(Tokenize(b))
        inter == Cardinality(ta \cap tb)
        union == Cardinality(ta \cup tb)
    IN  IF ta = {} \/ tb = {} THEN <<0, 1>>
        ELSE IF union # 0 THEN <<inter, union>> ELSE <<0, 1>>

\* a variant of RatLess that also holds of equal values
RatLessOrEqual(a, b) == a[1] * b[2] <= b[1] * a[2]

\* a < b on rationals with positive denominators
RatLess(a, b) == a[1] * b[2] < b[1] * a[2]

\* datetime.min: no datetime is earlier
DatetimeMin == -1

\* What a file holds for the timestamp lookup.
\* exif: "unreadable" (Image.open or _getexif raises), "none" (no EXIF data),
\*       "tags"
\* tags: the values of DateTimeOriginal, DateTimeDigitized, DateTime, in the
\*       order the code looks them up
\* mtime: os.path.getmtime's value as a datetime, None when it raises
FileMeta(exif, tags, mtime) == [exif |-> exif, tags |-> tags, mtime |-> mtime]

\* The value of an EXIF field. kind: "absent", "nonstr" (not a str), "str";
\* fmt: which of the three formats the string is written in (0: none of them);
\* t: the time the string denotes
Tag(kind, fmt, t) == [kind |-> kind, fmt |-> fmt, t |-> t]

NoTag == Tag("absent", 0, 0)
NoTags == <<NoTag, NoTag, NoTag>>

\* "%Y:%m:%d %H:%M:%S", "%Y-%m-%d %H:%M:%S", "%Y/%m/%d %H:%M:%S"
DateFormats == 1..3

\* datetime.strptime(v, fmt); None stands for the exception it raises
Strptime(v, fmt) == IF v.fmt = fmt THEN Some(v.t) ELSE None

\* for fmt in (...): the first format that parses returns
RECURSIVE FormatLoop(_, _)
FormatLoop(v, fmt) ==
    IF fmt \notin DateFormats THEN None
    ELSE IF Strptime(v, fmt) # None THEN Strptime(v, fmt)
    ELSE FormatLoop(v, fmt + 1)

\* a variant of KeyLoop that looks the fields up in the opposite order
RECURSIVE KeyLoopReversed(_, _)
KeyLoopReversed(tags, k) ==
    LET at == Len(tags) + 1 - k
    IN  IF k > Len(tags) THEN None
        ELSE IF tags[at].kind = "str" /\ FormatLoop(tags[at], 1) # None
             THEN FormatLoop(tags[at], 1)
             ELSE KeyLoopReversed(tags, k + 1)

\* for key in ("DateTimeOriginal", "DateTimeDigitized", "DateTime")
RECURSIVE KeyLoop(_, _)
KeyLoop(tags, k) ==
    IF k > Len(tags) THEN None
    ELSE IF tags[k].kind = "str" /\ FormatLoop(tags[k], 1) # None
         THEN FormatLoop(tags[k], 1)
         ELSE KeyLoop(tags, k + 1)

\* _read_exif_datetime: every exception is caught and gives None
ReadExifDatetime(meta) ==
    IF meta.exif = "unreadable" THEN None
    ELSE IF meta.exif = "none" THEN None
    ELSE KeyLoop(meta.tags, 1)

\* _file_mtime_datetime: None when os.path.getmtime raises
FileMtimeDatetime(meta) == meta.mtime

\* ts = _read_exif_datetime(p) or _file_mtime_datetime(p)
Timestamp(meta) ==
    IF ReadExifDatetime(meta) # None THEN ReadExifDatetime(meta)
    ELSE FileMtimeDatetime(meta)

TxtPath(base) == base \o <<"_german.txt">>

Page(p, ts, text_by_base) ==
    LET base == BaseOf(p)
    IN  [image_path |-> p,
         base |-> base,
         german_txt_path |-> TxtPath(base),
         timestamp |-> ts,
         text |-> IF base \in DOMAIN text_by_base THEN text_by_base[base] ELSE <<>>]

\* a variant of SortKeyTime that puts pages without a timestamp last
SortKeyTimeLate(pg) == IF pg.timestamp # None THEN Value(pg.timestamp) ELSE LongGap + 1

\* pg.timestamp or datetime.min
SortKeyTime(pg) == IF pg.timestamp # None THEN Value(pg.timestamp) ELSE DatetimeMin

\* the sort key (timestamp or datetime.min, base), compared as a tuple
PageKey(pg) == <<SortKeyTime(pg)>> \o StrKey(pg.base)

\* files[p] is what the file at path p holds
BuildPages(image_paths, files, text_by_base) ==
    LET appended == [i \in DOMAIN image_paths |->
                        Page(image_paths[i], Timestamp(files[image_paths[i]]), text_by_base)]
    IN  Items(SortPairs([i \in DOMAIN appended |-> <<PageKey(appended[i]), appended[i]>>]))

TimeGapSeconds(prv, cur) ==
    IF prv = None \/ cur = None THEN None ELSE Some(Value(cur) - Value(prv))

\* a variant of BreakProposed that also breaks on a gap equal to the threshold
BreakProposedAtThreshold(gap, sim, time_gap_threshold, sim_threshold) ==
    \/ (gap # None /\ Value(gap) >= time_gap_threshold)
    \/ RatLess(sim, sim_threshold)

\* a variant of BreakProposed with the similarity comparison turned around
BreakProposedOnSimilar(gap, sim, time_gap_threshold, sim_threshold) ==
    \/ (gap # None /\ Value(gap) > time_gap_threshold)
    \/ RatLess(sim_threshold, sim)

\* the condition of the if statement in propose_breakpoints
BreakProposed(gap, sim, time_gap_threshold, sim_threshold) ==
    \/ (gap # None /\ Value(gap) > time_gap_threshold)
    \/ RatLess(sim, sim_threshold)

\* a variant of ProposeLoop that compares a page with the first page of the
\* current group instead of the page before it
RECURSIVE ProposeLoopFromGroupStart(_, _, _, _, _, _, _)
ProposeLoopFromGroupStart(pgs, i, prev_ts, prev_text, brks, time_gap_threshold, sim_threshold) ==
    IF i >= Len(pgs) THEN brks
    ELSE LET pg == pgs[i + 1]
         IN  IF i = 0
             THEN ProposeLoopFromGroupStart(pgs, 1, pg.timestamp, pg.text, brks,
                                            time_gap_threshold, sim_threshold)
             ELSE LET gap == TimeGapSeconds(prev_ts, pg.timestamp)
                      sim == JaccardSimilarity(prev_text, pg.text)
                  IN  IF BreakProposed(gap, sim, time_gap_threshold, sim_threshold)
                      THEN ProposeLoopFromGroupStart(pgs, i + 1, pg.timestamp, pg.text,
                                                     Append(brks, i),
                                                     time_gap_threshold, sim_threshold)
                      ELSE ProposeLoopFromGroupStart(pgs, i + 1, prev_ts, prev_text,
                                                     brks,
                                                     time_gap_threshold, sim_threshold)

\* i is the 0-based index of the page being visited
RECURSIVE ProposeLoop(_, _, _, _, _, _, _)
ProposeLoop(pgs, i, prev_ts, prev_text, brks, time_gap_threshold, sim_threshold) ==
    IF i >= Len(pgs) THEN brks
    ELSE LET pg == pgs[i + 1]
         IN  IF i = 0
             THEN ProposeLoop(pgs, 1, pg.timestamp, pg.text, brks,
                              time_gap_threshold, sim_threshold)
             ELSE LET gap == TimeGapSeconds(prev_ts, pg.timestamp)
                      sim == JaccardSimilarity(prev_text, pg.text)
                  IN  ProposeLoop(pgs, i + 1, pg.timestamp, pg.text,
                                  IF BreakProposed(gap, sim, time_gap_threshold,
                                                   sim_threshold)
                                  THEN Append(brks, i) ELSE brks,
                                  time_gap_threshold, sim_threshold)

\* a variant of ProposeBreakpoints that numbers the pages from 1
ProposeBreakpointsOneBased(pgs, time_gap_threshold, sim_threshold) ==
    LET brks == ProposeLoop(pgs, 0, None, <<>>, <<>>, time_gap_threshold, sim_threshold)
    IN  [k \in DOMAIN brks |-> brks[k] + 1]

ProposeBreakpoints(pgs, time_gap_threshold, sim_threshold) ==
    ProposeLoop(pgs, 0, None, <<>>, <<>>, time_gap_threshold, sim_threshold)


\* name_to_index.get(base): the last page with that base, 0-based
NameToIndex(pgs, base) ==
    LET hits == {i \in DOMAIN pgs : pgs[i].base = base}
    IN  IF hits = {} THEN None ELSE Some(Max(hits) - 1)

\* set(data.get("break_after", [])) after json.load: [raised, items];
\* raised covers json.load failing, data having no get(), and set() failing
\* on a value that is not iterable or holds an unhashable element
ForcedAfter(file) ==
    CASE file.kind \in {"badjson", "array"} -> [raised |-> TRUE, items |-> {}]
      [] file.t = "absent" -> [raised |-> FALSE, items |-> {}]
      [] file.t \in {"null", "number"} -> [raised |-> TRUE, items |-> {}]
      [] file.t = "string" ->
            [raised |-> FALSE, items |-> {StrItem(<<file.s[i]>>) : i \in DOMAIN file.s}]
      [] OTHER ->
            IF \E i \in DOMAIN file.items : file.items[i].t = "list"
            THEN [raised |-> TRUE, items |-> {}]
            ELSE [raised |-> FALSE, items |-> Range(file.items)]

\* a variant of ForcedBoundaryAdded that appends a boundary the list already holds
ForcedBoundaryAddedAgain(idx, pgs, brks) ==
    /\ idx # None
    /\ Value(idx) + 1 <= Len(pgs) - 1

\* the two if statements that guard breaks.append(idx + 1)
ForcedBoundaryAdded(idx, pgs, brks) ==
    /\ idx # None
    /\ Value(idx) + 1 <= Len(pgs) - 1
    /\ (Value(idx) + 1) \notin Range(brks)

\* the for loop over forced_after, visiting the set in the order `order`
RECURSIVE ForcedLoop(_, _, _, _)
ForcedLoop(order, k, pgs, brks) ==
    IF k > Len(order) THEN brks
    ELSE LET idx == IF order[k].t = "str" THEN NameToIndex(pgs, order[k].s) ELSE None
         IN  ForcedLoop(order, k + 1, pgs,
                        IF ForcedBoundaryAdded(idx, pgs, brks)
                        THEN Append(brks, Value(idx) + 1)
                        ELSE brks)

\* a variant of ApplyOverrides that sorts the list on every path
ApplyOverridesSortsFirst(brks, pgs, file, order) ==
    IF file.kind \in {"nopath", "missing"} THEN SortInts(brks)
    ELSE IF ForcedAfter(file).raised THEN SortInts(brks)
    ELSE SortInts(ForcedLoop(order, 1, pgs, brks))

\* a variant of ApplyOverrides without the closing breaks.sort()
ApplyOverridesUnsorted(brks, pgs, file, order) ==
    IF file.kind \in {"nopath", "missing"} THEN brks
    ELSE IF ForcedAfter(file).raised THEN brks
    ELSE ForcedLoop(order, 1, pgs, brks)

\* order: the iteration order of the set forced_after (it is ignored when the
\* set is never built)
ApplyOverrides(brks, pgs, file, order) ==
    IF file.kind \in {"nopath", "missing"} THEN brks
    ELSE IF ForcedAfter(file).raised THEN brks
    ELSE SortInts(ForcedLoop(order, 1, pgs, brks))

\* the iteration orders apply_overrides may meet
ForcedOrders(file) ==
    IF file.kind \in {"nopath", "missing"} THEN {<<>>}
    ELSE Orders(ForcedAfter(file).items)

Min2(a, b) == IF a <= b THEN a ELSE b

\* a variant of Slice that starts one page late
SliceLate(pgs, start, b) == SubSeq(pgs, start + 2, Min2(b, Len(pgs)))

\* pages[start:b]
Slice(pgs, start, b) == SubSeq(pgs, start + 1, Min2(b, Len(pgs)))

RECURSIVE DigitsOf(_)
DigitsOf(n) ==
    LET d == <<"0", "1", "2", "3", "4", "5", "6", "7", "8", "9">>[(n % 10) + 1]
    IN  IF n < 10 THEN <<d>> ELSE Append(DigitsOf(n \div 10), d)

RECURSIVE ZeroPad(_, _)
ZeroPad(s, width) == IF Len(s) >= width THEN s ELSE ZeroPad(<<"0">> \o s, width)

\* f"L{gid:04d}"
GroupId(gid) == <<"L">> \o ZeroPad(DigitsOf(gid), 4)

\* pg.timestamp.isoformat() if pg.timestamp else None
IsoFormat(ts) == IF ts # None THEN Some(<<"iso", Value(ts)>>) ELSE None

PageDict(pg) ==
    [image_path |-> pg.image_path,
     base |-> pg.base,
     german_txt_path |-> pg.german_txt_path,
     timestamp |-> IsoFormat(pg.timestamp)]

\* a variant of GroupLoop that also counts the boundaries it skips
RECURSIVE GroupLoopCountSkipped(_, _, _, _, _)
GroupLoopCountSkipped(bs, pgs, start, gid, grps) ==
    IF bs = <<>> THEN grps
    ELSE IF Head(bs) <= start
         THEN GroupLoopCountSkipped(Tail(bs), pgs, start, gid + 1, grps)
    ELSE LET group_pages == Slice(pgs, start, Head(bs))
         IN  GroupLoopCountSkipped(Tail(bs), pgs, Head(bs), gid + 1,
                       Append(grps,
                              [id |-> GroupId(gid),
                               pages |-> [i \in DOMAIN group_pages |->
                                              PageDict(group_pages[i])]]))

RECURSIVE GroupLoop(_, _, _, _, _)
GroupLoop(bs, pgs, start, gid, grps) ==
    IF bs = <<>> THEN grps
    ELSE IF Head(bs) <= start THEN GroupLoop(Tail(bs), pgs, start, gid, grps)
    ELSE LET group_pages == Slice(pgs, start, Head(bs))
         IN  GroupLoop(Tail(bs), pgs, Head(bs), gid + 1,
                       Append(grps,
                              [id |-> GroupId(gid),
                               pages |-> [i \in DOMAIN group_pages |->
                                              PageDict(group_pages[i])]]))

\* a variant of GroupPages without the closing boundary len(pages)
GroupPagesOpenEnded(pgs, brks) ==
    GroupLoop(SortedSet(Range(brks)), pgs, 0, 1, <<>>)

GroupPages(pgs, brks) ==
    GroupLoop(Append(SortedSet(Range(brks)), Len(pgs)), pgs, 0, 1, <<>>)


----------------------------------------------------------------------------
(* pipeline_strict.py / china_pipeline/pipeline.py: _clean_leading_numbering *)

StripCtrl(s) ==
    LET Keep(ch) == ch \in {"\n", "\r", "\t"} \/ Ord(ch) >= 32
    IN  SelectSeq(s, Keep)

\* str.splitlines, for the line boundaries that survive StripCtrl
RECURSIVE SplitLoop(_, _, _)
SplitLoop(text, cur, lines) ==
    IF text = <<>> THEN (IF cur # <<>> THEN Append(lines, cur) ELSE lines)
    ELSE IF Head(text) = "\r" /\ Len(text) >= 2 /\ text[2] = "\n"
         THEN SplitLoop(Tail(Tail(text)), <<>>, Append(lines, cur))
    ELSE IF Head(text) \in {"\n", "\r"}
         THEN SplitLoop(Tail(text), <<>>, Append(lines, cur))
    ELSE SplitLoop(Tail(text), Append(cur, Head(text)), lines)

SplitLines(text) == SplitLoop(text, <<>>, <<>>)

\* the characters of the model that \s and \d match
SpaceChars == {" ", "\t", "\n", "\r", "\f"}
DigitChars == {"0", "1", "2", "3", "4", "5", "6", "7", "8", "9"}

\* the length of the longest prefix of s[from..] whose characters are all in chars
SpanLen(s, from, chars) ==
    Max({0} \cup {k \in 1..(Len(s) - from + 1) :
                     \A i \in from..(from + k - 1) : s[i] \in chars})

RECURSIVE StrToInt(_)
StrToInt(ds) ==
    IF ds = <<>> THEN 0
    ELSE 10 * StrToInt(SubSeq(ds, 1, Len(ds) - 1)) + (Ord(ds[Len(ds)]) - Ord("0"))

\* a variant of PatternMatch that asks for no white space after the number
PatternMatchNoSpace(ln) ==
    LET ws == SpanLen(ln, 1, SpaceChars)
        nd == SpanLen(ln, ws + 1, DigitChars)
        at == ws + nd + 1
        sp == SpanLen(ln, at + 1, SpaceChars)
    IN  IF /\ nd >= 1
           /\ nd <= 4
           /\ at <= Len(ln)
           /\ ln[at] \in {".", ")"}
        THEN Some([n |-> StrToInt(SubSeq(ln, ws + 1, ws + nd)), end |-> at + sp])
        ELSE None

\* pattern.match(ln) for ^\s*(\d{1,4})[\.)]\s+ : None, or Some of
\* [n |-> int(group 1), end |-> the length of the match]
PatternMatch(ln) ==
    LET ws == SpanLen(ln, 1, SpaceChars)
        nd == SpanLen(ln, ws + 1, DigitChars)
        at == ws + nd + 1
        sp == SpanLen(ln, at + 1, SpaceChars)
    IN  IF /\ nd >= 1
           /\ nd <= 4
           /\ at <= Len(ln)
           /\ ln[at] \in {".", ")"}
           /\ sp >= 1
        THEN Some([n |-> StrToInt(SubSeq(ln, ws + 1, ws + nd)), end |-> at + sp])
        ELSE None

\* pattern.sub("", ln)
PatternSub(ln) ==
    LET m == PatternMatch(ln)
    IN  IF m = None THEN ln ELSE SubSeq(ln, Value(m).end + 1, Len(ln))

\* the scan for the longest sequential run; last is an Optional[int]
RECURSIVE RunLoop(_, _, _, _, _)
RunLoop(lines, k, longest_run, runlen, last) ==
    IF k > Len(lines) THEN Max({longest_run, runlen})
    ELSE LET m == PatternMatch(lines[k])
         IN  IF m # None
             THEN LET n == Value(m).n
                  IN  IF last = None /\ n \in {1, 2}
                      THEN RunLoop(lines, k + 1, longest_run, 1, Some(n))
                      ELSE IF last # None /\ n = Value(last) + 1
                      THEN RunLoop(lines, k + 1, longest_run, runlen + 1, Some(n))
                      ELSE RunLoop(lines, k + 1, Max({longest_run, runlen}),
                                   IF n \in {1, 2} THEN 1 ELSE 0,
                                   IF n \in {1, 2} THEN Some(n) ELSE None)
             ELSE RunLoop(lines, k + 1, Max({longest_run, runlen}), 0, None)

RECURSIVE JoinLines(_)
JoinLines(lines) ==
    IF lines = <<>> THEN <<>>
    ELSE IF Len(lines) = 1 THEN lines[1]
    ELSE lines[1] \o <<"\n">> \o JoinLines(Tail(lines))

MinRun == 4

CleanLeadingNumbering(text) ==
    LET stripped == StripCtrl(text)
        lines == SplitLines(stripped)
    IN  IF RunLoop(lines, 1, 0, 0, None) >= MinRun
        THEN JoinLines([k \in DOMAIN lines |-> PatternSub(lines[k])])
        ELSE stripped

\* a variant of JoinTexts that ends every page text with a newline
RECURSIVE JoinTextsNewline(_, _)
JoinTextsNewline(page_dicts, text_by_base) ==
    IF page_dicts = <<>> THEN <<>>
    ELSE LET base == Head(page_dicts).base
             raw == IF base \in DOMAIN text_by_base THEN text_by_base[base] ELSE <<>>
         IN  CleanLeadingNumbering(raw) \o <<"\n">>
                 \o JoinTextsNewline(Tail(page_dicts), text_by_base)

\* "".join(page_texts) over the pages of one group
RECURSIVE JoinTexts(_, _)
JoinTexts(page_dicts, text_by_base) ==
    IF page_dicts = <<>> THEN <<>>
    ELSE LET base == Head(page_dicts).base
             raw == IF base \in DOMAIN text_by_base THEN text_by_base[base] ELSE <<>>
         IN  CleanLeadingNumbering(raw) \o JoinTexts(Tail(page_dicts), text_by_base)


----------------------------------------------------------------------------
(* main: one action per stage of the run *)

\* files without a timestamp, with one from EXIF and with one from the mtime
Stamps ==
    {FileMeta("unreadable", NoTags, None)}
        \cup {FileMeta("tags", <<Tag("str", 1, t), NoTag, NoTag>>, Some(LongGap)) :
                 t \in Times \ {LongGap}}
        \cup {FileMeta("none", NoTags, Some(t)) : t \in Times \ {0}}

Args ==
    {[time_gap_seconds |-> th.time_gap_seconds,
      sim_threshold |-> th.sim_threshold,
      overrides |-> file] : th \in Thresholds, file \in OverrideFiles}

NoLetters == [id \in {} |-> <<>>]

\* german_text_by_base: Dict[str, str] = {}
NoTexts == [b \in {} |-> <<>>]

\* d[k] = v on a dict
Put(d, k, v) == [x \in DOMAIN d \cup {k} |-> IF x = k THEN v ELSE d[x]]

\* f.read() of a file opened in text mode: "\r\n" and "\r" are read as "\n"
RECURSIVE ReadText(_)
ReadText(content) ==
    IF content = <<>> THEN <<>>
    ELSE IF Head(content) = "\r"
         THEN <<"\n">> \o ReadText(IF Len(content) >= 2 /\ content[2] = "\n"
                                    THEN Tail(Tail(content))
                                    ELSE Tail(content))
         ELSE <<Head(content)>> \o ReadText(Tail(content))

\* what the model answers for a page: text with a Windows line end, an
\* injected numbering, and a numbered list under an injected numbering
OcrOutputs ==
    { <<"x", "\r", "\n", "y">>,
      <<"1", ".", " ", "x", "\n", "2", ".", " ", "x", "\n", "3", ".", " ", "x", "\n", "4", ".", " ", "x">>,
      <<"1", ".", " ", "1", ".", " ", "x", "\n", "2", ".", " ", "2", ".", " ", "x", "\n", "3", ".", " ", "3", ".", " ", "x", "\n", "4", ".", " ", "4", ".", " ", "x">> }

\* the OCR call raises (None) or the stream of chunks adds up to out
OcrOutcomes == {None} \cup {Some(out) : out \in OcrOutputs}

\* extract_german_text: return _clean_leading_numbering(out)
ExtractGermanText(out) == CleanLeadingNumbering(out)

\* text = extract_german_text(img, client), "" when it raises
OcrText(outcome) == IF outcome = None THEN <<>> ELSE ExtractGermanText(Value(outcome))

\* a variant of OcrLoop that calls OCR whether or not the file exists
RECURSIVE OcrLoopOverwriting(_, _, _, _, _, _, _)
OcrLoopOverwriting(imgs, skip_ocr, outs, r, dir, texts, calls) ==
    IF imgs = <<>> THEN [dir |-> dir, texts |-> texts, calls |-> calls]
    ELSE LET img == Head(imgs)
             base == BaseOf(img)
             text == OcrText(outs[img])
         IN  IF skip_ocr
             THEN OcrLoopOverwriting(Tail(imgs), skip_ocr, outs, r, dir, texts, calls)
             ELSE OcrLoopOverwriting(Tail(imgs), skip_ocr, outs, r,
                                     Put(dir, base, text), Put(texts, base, text),
                                     Append(calls, [run |-> r, image |-> img,
                                                    out |-> outs[img]]))

\* for i, img in enumerate(images, 1): use the existing file, or call OCR and
\* write its text; outs[img] is what the OCR call for img gives, r the run
RECURSIVE OcrLoop(_, _, _, _, _, _, _)
OcrLoop(imgs, skip_ocr, outs, r, dir, texts, calls) ==
    IF imgs = <<>> THEN [dir |-> dir, texts |-> texts, calls |-> calls]
    ELSE LET img == Head(imgs)
             base == BaseOf(img)
             text == OcrText(outs[img])
         IN  IF base \in DOMAIN dir
             THEN OcrLoop(Tail(imgs), skip_ocr, outs, r, dir,
                          Put(texts, base, ReadText(dir[base])), calls)
             ELSE IF skip_ocr
             THEN OcrLoop(Tail(imgs), skip_ocr, outs, r, dir, texts, calls)
             ELSE OcrLoop(Tail(imgs), skip_ocr, outs, r,
                          Put(dir, base, text), Put(texts, base, text),
                          Append(calls, [run |-> r, image |-> img, out |-> outs[img]]))

\* for img in images: read any missing OCR files, "" when there is none
RECURSIVE ReadMissingLoop(_, _, _)
ReadMissingLoop(imgs, dir, texts) ==
    IF imgs = <<>> THEN texts
    ELSE LET base == BaseOf(Head(imgs))
         IN  IF base \in DOMAIN texts THEN ReadMissingLoop(Tail(imgs), dir, texts)
             ELSE IF base \in DOMAIN dir
             THEN ReadMissingLoop(Tail(imgs), dir, Put(texts, base, ReadText(dir[base])))
             ELSE ReadMissingLoop(Tail(imgs), dir, Put(texts, base, <<>>))

Init ==
    /\ \E S \in SUBSET FileNames :
          /\ Cardinality(S) <= MaxImages
          /\ stamp \in [S -> Stamps]
          /\ german_text_by_base \in [{BaseOf(f) : f \in S} -> Texts]
    /\ args \in Args
    /\ pc = "start"
    /\ images = <<>>
    /\ pages = <<>>
    /\ breaks = <<>>
    /\ ovTrace = <<>>
    /\ groups = <<>>
    /\ letters = NoLetters
    /\ run = 1
    /\ prev = None
    /\ german_dir = german_text_by_base
    /\ ocr_calls = <<>>

\* a variant of ListImagesStep that goes on when no image is found
ListImagesStepNoReturn ==
    /\ pc = "start"
    /\ \E found \in ListImagesResults[DOMAIN stamp] :
          /\ images' = found
          /\ pc' = "listed"
    /\ UNCHANGED <<stamp, german_text_by_base, args, pages, breaks, ovTrace,
                   groups, letters, run, prev, german_dir, ocr_calls>>

\* images = _list_images(args.input_dir); an empty list ends the run
ListImagesStep ==
    /\ pc = "start"
    /\ \E found \in ListImagesResults[DOMAIN stamp] :
          /\ images' = found
          /\ pc' = IF found = <<>> THEN "done" ELSE "listed"
    /\ UNCHANGED <<stamp, german_text_by_base, args, pages, breaks, ovTrace,
                   groups, letters, run, prev, german_dir, ocr_calls>>

\* german_text_by_base has an entry for the base id of every image, as it has
\* once the two loops of main over the images are through
TextsLoaded == {BaseOf(p) : p \in Range(images)} \subseteq DOMAIN german_text_by_base

BuildPagesStep ==
    /\ pc = "listed"
    /\ TextsLoaded
    /\ pages' = BuildPages(images, stamp, german_text_by_base)
    /\ pc' = "built"
    /\ UNCHANGED <<stamp, german_text_by_base, args, images, breaks, ovTrace,
                   groups, letters, run, prev, german_dir, ocr_calls>>

ProposeBreakpointsStep ==
    /\ pc = "built"
    /\ breaks' = ProposeBreakpoints(pages, args.time_gap_seconds, args.sim_threshold)
    /\ pc' = "proposed"
    /\ UNCHANGED <<stamp, german_text_by_base, args, images, pages, ovTrace,
                   groups, letters, run, prev, german_dir, ocr_calls>>

ApplyOverridesStep ==
    /\ pc = "proposed"
    /\ \E order \in ForcedOrders(args.overrides) :
          LET returned == ApplyOverrides(breaks, pages, args.overrides, order)
          IN  /\ breaks' = returned
              /\ ovTrace' = <<breaks, returned>>
    /\ pc' = "overridden"
    /\ UNCHANGED <<stamp, german_text_by_base, args, images, pages,
                   groups, letters, run, prev, german_dir, ocr_calls>>

\* a variant of GroupPagesStep that takes the grouped pages out of the page list
GroupPagesStepConsuming ==
    /\ pc = "overridden"
    /\ groups' = GroupPages(pages, breaks)
    /\ pages' = <<>>
    /\ pc' = "grouped"
    /\ UNCHANGED <<stamp, german_text_by_base, args, images, breaks, ovTrace,
                   letters, run, prev, german_dir, ocr_calls>>

GroupPagesStep ==
    /\ pc = "overridden"
    /\ groups' = GroupPages(pages, breaks)
    /\ pc' = "grouped"
    /\ UNCHANGED <<stamp, german_text_by_base, args, images, pages, breaks, ovTrace,
                   letters, run, prev, german_dir, ocr_calls>>

\* the letter each group of grps is written as: meta.json and the joined text
Emitted(grps, text_by_base) ==
    [id \in {grps[k].id : k \in DOMAIN grps} |->
        LET g == grps[CHOOSE k \in DOMAIN grps : grps[k].id = id]
        IN  [meta |-> g, text |-> JoinTexts(g.pages, text_by_base)]]

\* the for loop over groups: files of other group ids stay as they are
EmitLettersStep ==
    /\ pc = "grouped"
    /\ letters' = LET new == Emitted(groups, german_text_by_base)
                  IN  [id \in DOMAIN letters \cup DOMAIN new |->
                          IF id \in DOMAIN new THEN new[id] ELSE letters[id]]
    /\ pc' = "done"
    /\ UNCHANGED <<stamp, german_text_by_base, args, images, pages, breaks, ovTrace,
                   groups, run, prev, german_dir, ocr_calls>>

\* the pipeline is started again on the same inputs and arguments
Rerun ==
    /\ pc = "done"
    /\ run < MaxRuns
    /\ prev' = Some([groups |-> groups, letters |-> letters])
    /\ run' = run + 1
    /\ pc' = "start"
    /\ images' = <<>>
    /\ pages' = <<>>
    /\ breaks' = <<>>
    /\ ovTrace' = <<>>
    /\ groups' = <<>>
    /\ UNCHANGED <<stamp, german_text_by_base, args, letters, german_dir, ocr_calls>>

\* the images OCR can be called for: none with --skip-ocr
OcrCallable(imgs, skip_ocr) == IF skip_ocr THEN {} ELSE Range(imgs)

\* the OCR stage of main: without --skip-ocr and without GEMINI_API_KEY the
\* run exits; otherwise the two loops over the images fill german_text_by_base
TranscribeStep ==
    /\ pc = "listed"
    /\ ~TextsLoaded
    /\ IF ~args.skip_ocr /\ ~args.api_key
       THEN /\ pc' = "done"
            /\ UNCHANGED <<german_text_by_base, german_dir, ocr_calls>>
       ELSE /\ \E outs \in [OcrCallable(images, args.skip_ocr) -> OcrOutcomes] :
                  LET ocr == OcrLoop(images, args.skip_ocr, outs, run,
                                     german_dir, NoTexts, ocr_calls)
                  IN  /\ german_dir' = ocr.dir
                      /\ german_text_by_base' = ReadMissingLoop(images, ocr.dir, ocr.texts)
                      /\ ocr_calls' = ocr.calls
            /\ pc' = "listed"
    /\ UNCHANGED <<stamp, args, images, pages, breaks, ovTrace, groups, letters,
                   run, prev>>

\* --skip-ocr and whether GEMINI_API_KEY is set (it is looked at only
\* without --skip-ocr)
OcrModes ==
    { [skip_ocr |-> TRUE, api_key |-> TRUE],
      [skip_ocr |-> FALSE, api_key |-> TRUE],
      [skip_ocr |-> FALSE, api_key |-> FALSE] }

\* the command lines of the runs with OCR: the defaults of either pipeline
OcrArgs ==
    {[time_gap_seconds |-> th.time_gap_seconds,
      sim_threshold |-> th.sim_threshold,
      overrides |-> Ov("nopath", "", <<>>, <<>>),
      skip_ocr |-> mode.skip_ocr,
      api_key |-> mode.api_key] :
        th \in {[time_gap_seconds |-> StrictTimeGapSeconds,
                 sim_threshold |-> StrictSimThreshold],
                [time_gap_seconds |-> ChinaTimeGapSeconds,
                 sim_threshold |-> ChinaSimThreshold]},
        mode \in OcrModes}

\* the pipeline is started again on the same images and directories, with
\* any command line
RerunAgain ==
    /\ pc = "done"
    /\ run < MaxRuns
    /\ prev' = Some([groups |-> groups, letters |-> letters])
    /\ run' = run + 1
    /\ args' \in OcrArgs
    /\ pc' = "start"
    /\ images' = <<>>
    /\ pages' = <<>>
    /\ breaks' = <<>>
    /\ ovTrace' = <<>>
    /\ groups' = <<>>
    /\ german_text_by_base' = NoTexts
    /\ UNCHANGED <<stamp, letters, german_dir, ocr_calls>>

Next ==
    \/ ListImagesStep
    \/ BuildPagesStep
    \/ ProposeBreakpointsStep
    \/ ApplyOverridesStep
    \/ GroupPagesStep
    \/ EmitLettersStep

\* one run of the pipeline
Spec == Init /\ [][Next]_vars

NextRerun == Next \/ Rerun

\* the runs of pipeline_strict.py with its default thresholds
InitRerun ==
    /\ Init
    /\ args.time_gap_seconds = StrictTimeGapSeconds
    /\ args.sim_threshold = StrictSimThreshold

\* up to MaxRuns runs of the pipeline on the same inputs
SpecRerun == InitRerun /\ [][NextRerun]_vars

----------------------------------------------------------------------------
(* apply_overrides and group_pages called on any list of integers *)

BreakValues == (0 - 1)..(MaxImages + 2)

BreakLists == UNION {[1..n -> BreakValues] : n \in 0..MaxBreaks}

InitFn ==
    /\ \E S \in SUBSET FileNames :
          /\ Cardinality(S) <= MaxImages
          /\ stamp = [f \in S |-> FileMeta("unreadable", NoTags, None)]
          /\ german_text_by_base = [b \in {BaseOf(f) : f \in S} |-> <<>>]
          /\ \E listing \in Orders(S) : images = ListImages(listing)
    /\ args \in {[time_gap_seconds |-> StrictTimeGapSeconds,
                  sim_threshold |-> StrictSimThreshold,
                  overrides |-> file] : file \in AllOverrideFiles}
    /\ pages = BuildPages(images, stamp, german_text_by_base)
    /\ breaks \in BreakLists
    /\ pc = "proposed"
    /\ ovTrace = <<>>
    /\ groups = <<>>
    /\ letters = NoLetters
    /\ run = 1
    /\ prev = None
    /\ german_dir = german_text_by_base
    /\ ocr_calls = <<>>

\* apply_overrides is called on the list it returned
ReapplyOverridesStep ==
    /\ pc = "overridden"
    /\ \E order \in ForcedOrders(args.overrides) :
          LET returned == ApplyOverrides(breaks, pages, args.overrides, order)
          IN  /\ breaks' = returned
              /\ ovTrace' = Append(ovTrace, returned)
    /\ pc' = "reapplied"
    /\ UNCHANGED <<stamp, german_text_by_base, args, images, pages,
                   groups, letters, run, prev, german_dir, ocr_calls>>

NextFn ==
    \/ ApplyOverridesStep
    \/ ReapplyOverridesStep
    \/ GroupPagesStep

SpecFn == InitFn /\ [][NextFn]_vars

----------------------------------------------------------------------------
(* runs over files whose EXIF timestamp may be datetime.min *)

PageStamps ==
    Stamps \cup {FileMeta("tags", <<Tag("str", 1, DatetimeMin), NoTag, NoTag>>, Some(0))}

InitPages ==
    /\ \E S \in SUBSET FileNames :
          /\ Cardinality(S) <= MaxImages
          /\ stamp \in [S -> PageStamps]
          /\ german_text_by_base = [b \in {BaseOf(f) : f \in S} |-> <<>>]
    /\ args = [time_gap_seconds |-> StrictTimeGapSeconds,
               sim_threshold |-> StrictSimThreshold,
               overrides |-> Ov("nopath", "", <<>>, <<>>)]
    /\ pc = "start"
    /\ images = <<>>
    /\ pages = <<>>
    /\ breaks = <<>>
    /\ ovTrace = <<>>
    /\ groups = <<>>
    /\ letters = NoLetters
    /\ run = 1
    /\ prev = None
    /\ german_dir = german_text_by_base
    /\ ocr_calls = <<>>

SpecPages == InitPages /\ [][Next]_vars

----------------------------------------------------------------------------
(* runs over files with every combination of EXIF fields and mtime *)

MaxExifFiles == 1

\* the values of the k-th field: absent, not a string, a string in none of the
\* formats, a string in the k-th format denoting the time 10 * k
TagValues(k) ==
    {NoTag, Tag("nonstr", 0, 0), Tag("str", 0, 0), Tag("str", k, 10 * k)}

ExifStamps ==
    {FileMeta(exif, NoTags, mtime) :
        exif \in {"unreadable", "none"}, mtime \in {None, Some(LongGap)}}
    \cup {FileMeta("tags", <<v1, v2, v3>>, mtime) :
            v1 \in TagValues(1), v2 \in TagValues(2), v3 \in TagValues(3),
            mtime \in {None, Some(LongGap)}}

InitExif ==
    /\ \E S \in SUBSET FileNames :
          /\ Cardinality(S) <= MaxExifFiles
          /\ stamp \in [S -> ExifStamps]
          /\ german_text_by_base = [b \in {BaseOf(f) : f \in S} |-> <<>>]
    /\ args = [time_gap_seconds |-> StrictTimeGapSeconds,
               sim_threshold |-> StrictSimThreshold,
               overrides |-> Ov("nopath", "", <<>>, <<>>)]
    /\ pc = "start"
    /\ images = <<>>
    /\ pages = <<>>
    /\ breaks = <<>>
    /\ ovTrace = <<>>
    /\ groups = <<>>
    /\ letters = NoLetters
    /\ run = 1
    /\ prev = None
    /\ german_dir = german_text_by_base
    /\ ocr_calls = <<>>

SpecExif == InitExif /\ [][Next]_vars

----------------------------------------------------------------------------
(* runs over the three pages of the worked example *)

\* P1, P2, P3: capture time in seconds and transcription text
ExamplePages ==
    << [t |-> 0, text |-> <<"h", "e", "l", "l", "o", " ", "w", "o", "r", "l", "d">>],
       [t |-> 60,
        text |-> <<"h", "e", "l", "l", "o", " ", "w", "o", "r", "l", "d", " ", "a", "g", "a", "i", "n">>],
       [t |-> 10000,
        text |-> <<"c", "o", "m", "p", "l", "e", "t", "e", "l", "y", " ", "u", "n", "r", "e", "l", "a", "t", "e", "d", " ", "c", "o", "n", "t", "e", "n", "t">>] >>

ExampleFiles ==
    { <<"a", ".", "j", "p", "g">>, <<"b", ".", "j", "p", "g">>, <<"c", ".", "j", "p", "g">> }

\* the file of capture time t, dated by its EXIF DateTimeOriginal or by its mtime
ExampleStamps(t) ==
    {FileMeta("tags", <<Tag("str", 1, t), NoTag, NoTag>>, Some(LongGap)),
     FileMeta("none", NoTags, Some(t))}

\* --time-gap-seconds 180 --sim-threshold 0.3, no --overrides
ExampleArgs ==
    [time_gap_seconds |-> StrictTimeGapSeconds,
     sim_threshold |-> <<3, 10>>,
     overrides |-> Ov("nopath", "", <<>>, <<>>)]

\* each file holds one of the three pages
InitExample ==
    /\ \E holds \in Orders(ExampleFiles) :
          /\ stamp \in {s \in [ExampleFiles -> UNION {ExampleStamps(ExamplePages[k].t) : k \in 1..3}] :
                          \A k \in 1..3 : s[holds[k]] \in ExampleStamps(ExamplePages[k].t)}
          /\ german_text_by_base = [b \in {BaseOf(f) : f \in ExampleFiles} |->
                ExamplePages[CHOOSE k \in 1..3 : BaseOf(holds[k]) = b].text]
    /\ args = ExampleArgs
    /\ pc = "start"
    /\ images = <<>>
    /\ pages = <<>>
    /\ breaks = <<>>
    /\ ovTrace = <<>>
    /\ groups = <<>>
    /\ letters = NoLetters
    /\ run = 1
    /\ prev = None
    /\ german_dir = german_text_by_base
    /\ ocr_calls = <<>>

SpecExample == InitExample /\ [][Next]_vars

----------------------------------------------------------------------------
(* runs over two pages with texts of several token sets *)

SimTexts ==
    { <<>>,
      <<" ", ".">>,
      <<"x">>,
      <<"X">>,
      <<"x", " ", "y">>,
      <<"Y", ".", "x", " ", "x">>,
      <<"x", "y">>,
      <<"z", "\n", "x", "y">>,
      <<"1", " ", "y", ")", "z">> }

SimFiles == { <<"a", ".", "j", "p", "g">>, <<"b", ".", "j", "p", "g">> }

InitSim ==
    /\ stamp = [f \in SimFiles |-> FileMeta("unreadable", NoTags, None)]
    /\ german_text_by_base \in [{BaseOf(f) : f \in SimFiles} -> SimTexts]
    /\ args \in {[time_gap_seconds |-> th.time_gap_seconds,
                  sim_threshold |-> th.sim_threshold,
                  overrides |-> Ov("nopath", "", <<>>, <<>>)] : th \in Thresholds}
    /\ pc = "start"
    /\ images = <<>>
    /\ pages = <<>>
    /\ breaks = <<>>
    /\ ovTrace = <<>>
    /\ groups = <<>>
    /\ letters = NoLetters
    /\ run = 1
    /\ prev = None
    /\ german_dir = german_text_by_base
    /\ ocr_calls = <<>>

SpecSim == InitSim /\ [][Next]_vars

----------------------------------------------------------------------------
(* the letter of one page, over texts made of numbered and plain lines *)

MaxLines == 5

\* lines numbered 1 to 5 with '.' or ')' and various white space, a plain
\* line, and a number that no white space follows
TextLines ==
    { <<"1", ".", " ", "x">>,
      <<"2", ")", " ", "x">>,
      <<" ", "3", ".", " ", " ", "x">>,
      <<"4", ".", " ", "x">>,
      <<"5", ".", " ", "x">>,
      <<"x">>,
      <<"4", ".", "x">> }

NumberedTexts ==
    {JoinLines(lines) : lines \in UNION {[1..n -> TextLines] : n \in 0..MaxLines}}

CleanFile == <<"a", ".", "j", "p", "g">>

\* main has grouped the one page of the directory
InitClean ==
    /\ stamp = [f \in {CleanFile} |-> FileMeta("unreadable", NoTags, None)]
    /\ german_text_by_base \in [{BaseOf(CleanFile)} -> NumberedTexts]
    /\ args = [time_gap_seconds |-> StrictTimeGapSeconds,
               sim_threshold |-> StrictSimThreshold,
               overrides |-> Ov("nopath", "", <<>>, <<>>)]
    /\ images = ListImages(<<CleanFile>>)
    /\ pages = BuildPages(images, stamp, german_text_by_base)
    /\ breaks = ProposeBreakpoints(pages, args.time_gap_seconds, args.sim_threshold)
    /\ ovTrace = <<breaks, breaks>>
    /\ groups = GroupPages(pages, breaks)
    /\ pc = "grouped"
    /\ letters = NoLetters
    /\ run = 1
    /\ prev = None
    /\ german_dir = german_text_by_base
    /\ ocr_calls = <<>>

NextClean == EmitLettersStep

SpecClean == InitClean /\ [][NextClean]_vars

----------------------------------------------------------------------------
(* runs over pages with numbered and plain texts *)

\* no text, a plain text, a short numbered list, and an injected numbering
LetterTexts ==
    { <<>>,
      <<"x", " ", "y", "\n">>,
      <<"1", ".", " ", "x", "\n", "2", ")", " ", "y", "\n">>,
      <<"1", ".", " ", "x", "\n", "2", ")", " ", "x", "\n", " ", "3", ".", " ", " ", "x", "\n", "4", ".", " ", "y">> }

LetterStamps == {FileMeta("unreadable", NoTags, None), FileMeta("none", NoTags, Some(LongGap))}

InitLetters ==
    /\ \E S \in SUBSET FileNames :
          /\ Cardinality(S) <= MaxImages
          /\ stamp \in [S -> LetterStamps]
          /\ german_text_by_base \in [{BaseOf(f) : f \in S} -> LetterTexts]
    /\ args \in {[time_gap_seconds |-> th.time_gap_seconds,
                  sim_threshold |-> th.sim_threshold,
                  overrides |-> Ov("nopath", "", <<>>, <<>>)] : th \in Thresholds}
    /\ pc = "start"
    /\ images = <<>>
    /\ pages = <<>>
    /\ breaks = <<>>
    /\ ovTrace = <<>>
    /\ groups = <<>>
    /\ letters = NoLetters
    /\ run = 1
    /\ prev = None
    /\ german_dir = german_text_by_base
    /\ ocr_calls = <<>>

SpecLetters == InitLetters /\ [][Next]_vars

----------------------------------------------------------------------------
(* runs over input directories with and without images *)

\* the letter an earlier run wrote for an image that has since been removed
LeftLetters ==
    LET old == <<"c", ".", "j", "p", "g">>
        texts == [b \in {BaseOf(old)} |-> <<"x">>]
        files == [f \in {old} |-> FileMeta("none", NoTags, Some(0))]
    IN  Emitted(GroupPages(BuildPages(<<old>>, files, texts), <<>>), texts)

InitNoImage ==
    /\ \E S \in SUBSET DirNames :
          /\ Cardinality(S) <= MaxImages
          /\ stamp = [f \in S |-> FileMeta("none", NoTags, Some(LongGap))]
          /\ german_text_by_base = [b \in {BaseOf(f) : f \in S \cap FileNames} |-> <<"x">>]
    /\ args = [time_gap_seconds |-> StrictTimeGapSeconds,
               sim_threshold |-> StrictSimThreshold,
               overrides |-> Ov("nopath", "", <<>>, <<>>)]
    /\ pc = "start"
    /\ images = <<>>
    /\ pages = <<>>
    /\ breaks = <<>>
    /\ ovTrace = <<>>
    /\ groups = <<>>
    /\ letters \in {NoLetters, LeftLetters}
    /\ run = 1
    /\ prev = Some([groups |-> <<>>, letters |-> letters])
    /\ german_dir = german_text_by_base
    /\ ocr_calls = <<>>

SpecNoImage == InitNoImage /\ [][NextRerun]_vars

----------------------------------------------------------------------------
(* apply_overrides called with files that name pages, other ids, or hold a string *)

\* break_after: a two-letter string, the last page with an id of no page, and
\* the files of AllOverrideFiles
NamingFiles ==
    AllOverrideFiles
        \cup { Ov("object", "string", <<"a", "b">>, <<>>),
               Ov("object", "array", <<>>, <<StrItem(<<"c">>), StrItem(<<"d">>)>>) }

InitNames ==
    /\ \E S \in SUBSET FileNames :
          /\ Cardinality(S) <= MaxImages
          /\ stamp = [f \in S |-> FileMeta("unreadable", NoTags, None)]
          /\ german_text_by_base = [b \in {BaseOf(f) : f \in S} |-> <<>>]
          /\ \E listing \in Orders(S) : images = ListImages(listing)
    /\ args \in {[time_gap_seconds |-> StrictTimeGapSeconds,
                  sim_threshold |-> StrictSimThreshold,
                  overrides |-> file] : file \in NamingFiles}
    /\ pages = BuildPages(images, stamp, german_text_by_base)
    /\ breaks \in BreakLists
    /\ pc = "proposed"
    /\ ovTrace = <<>>
    /\ groups = <<>>
    /\ letters = NoLetters
    /\ run = 1
    /\ prev = None
    /\ german_dir = german_text_by_base
    /\ ocr_calls = <<>>

SpecNames == InitNames /\ [][NextFn]_vars

----------------------------------------------------------------------------
(* runs over pages a few minutes apart whose texts share some of their words *)

\* capture times below, at and above the gap of pipeline_strict.py when added up
LocalTimes == {0, 100, 200}

LocalStamps ==
    {FileMeta("unreadable", NoTags, None)}
        \cup {FileMeta("tags", <<Tag("str", 1, t), NoTag, NoTag>>, Some(LongGap)) :
                 t \in LocalTimes}

LocalTexts ==
    { <<>>,
      <<" ", ".">>,
      <<"x">>,
      <<"x", " ", "y">>,
      <<"y">> }

LocalThresholds ==
    { [time_gap_seconds |-> StrictTimeGapSeconds, sim_threshold |-> StrictSimThreshold],
      [time_gap_seconds |-> LongGap, sim_threshold |-> <<1, 2>>] }

InitLocal ==
    /\ \E S \in SUBSET ExampleFiles :
          /\ Cardinality(S) <= MaxImages
          /\ stamp \in [S -> LocalStamps]
          /\ german_text_by_base \in [{BaseOf(f) : f \in S} -> LocalTexts]
    /\ args \in {[time_gap_seconds |-> th.time_gap_seconds,
                  sim_threshold |-> th.sim_threshold,
                  overrides |-> Ov("nopath", "", <<>>, <<>>)] : th \in LocalThresholds}
    /\ pc = "start"
    /\ images = <<>>
    /\ pages = <<>>
    /\ breaks = <<>>
    /\ ovTrace = <<>>
    /\ groups = <<>>
    /\ letters = NoLetters
    /\ run = 1
    /\ prev = None
    /\ german_dir = german_text_by_base
    /\ ocr_calls = <<>>

SpecLocal == InitLocal /\ [][Next]_vars

----------------------------------------------------------------------------
(* runs with the OCR stage, over transcription and letters directories that
   the runs share *)

MaxOcrImages == 2

\* the content of a transcription file that is there before the first run
OldTranscriptions == { <<"x">> }

InitOcr ==
    /\ \E S \in SUBSET FileNames :
          /\ Cardinality(S) <= MaxOcrImages
          /\ stamp = [f \in S |-> FileMeta("unreadable", NoTags, None)]
          /\ \E B \in SUBSET {BaseOf(f) : f \in S} :
                 german_dir \in [B -> OldTranscriptions]
    /\ german_text_by_base = NoTexts
    /\ args \in OcrArgs
    /\ pc = "start"
    /\ images = <<>>
    /\ pages = <<>>
    /\ breaks = <<>>
    /\ ovTrace = <<>>
    /\ groups = <<>>
    /\ letters = NoLetters
    /\ run = 1
    /\ prev = None
    /\ ocr_calls = <<>>

NextOcr == Next \/ TranscribeStep \/ RerunAgain

SpecOcr == InitOcr /\ [][NextOcr]_vars


----------------------------------------------------------------------------
(* Properties *)

\* the (group, position) slots of the result that hold the page at image_path
SlotsOf(image_path) ==
    {<<k, j>> \in (DOMAIN groups) \X (1..Len(pages)) :
        j <= Len(groups[k].pages) /\ groups[k].pages[j].image_path = image_path}

\* C1: the groups returned by group_pages over the boundaries of
\* propose_breakpoints followed by apply_overrides partition the page sequence:
\* every input page is in exactly one group, and every page of a group is an
\* input page.
C1_GroupsPartitionPages ==
    pc = "grouped" =>
        /\ \A i \in DOMAIN pages : Cardinality(SlotsOf(pages[i].image_path)) = 1
        /\ \A k \in DOMAIN groups : \A j \in DOMAIN groups[k].pages :
               \E i \in DOMAIN pages : groups[k].pages[j] = PageDict(pages[i])

\* a run that grouped three pages into several groups, one boundary of which
\* came from the override file
C1_Witness ==
    /\ pc = "grouped"
    /\ Len(pages) = 3
    /\ Len(groups) >= 2
    /\ Len(ovTrace[2]) > Len(ovTrace[1])

\* the 1-based position in pages of the page a group lists
PosOf(page_dict) == CHOOSE i \in DOMAIN pages : pages[i].image_path = page_dict.image_path

\* C2: each group is a contiguous index range of the sorted page sequence, its
\* pages in the order of that sequence, and the first page of group N+1 comes
\* immediately after the last page of group N.
C2_GroupsContiguousInOrder ==
    pc = "grouped" =>
        /\ \A k \in DOMAIN groups :
              /\ Len(groups[k].pages) >= 1
              /\ \A j \in 1..(Len(groups[k].pages) - 1) :
                     PosOf(groups[k].pages[j + 1]) = PosOf(groups[k].pages[j]) + 1
        /\ \A k \in 1..(Len(groups) - 1) :
               PosOf(groups[k + 1].pages[1])
                   = PosOf(groups[k].pages[Len(groups[k].pages)]) + 1

\* a first group of two pages followed by a second group
C2_Witness ==
    /\ pc = "grouped"
    /\ Len(groups) = 2
    /\ Len(groups[1].pages) = 2
    /\ Len(groups[2].pages) = 1

\* the claimed condition for a boundary at the 0-based index i
C3_Claimed(i) ==
    LET before == pages[i]
        cur == pages[i + 1]
    IN  \/ /\ before.timestamp # <<>>
           /\ cur.timestamp # <<>>
           /\ cur.timestamp[1] - before.timestamp[1] > args.time_gap_seconds
        \/ LET sim == JaccardSimilarity(before.text, cur.text)
           IN  sim[1] * args.sim_threshold[2] < args.sim_threshold[1] * sim[2]

\* C3: propose_breakpoints returns index i (1 <= i < len(pages)) if and only if
\* both timestamps are present and differ by more than time_gap_threshold, or
\* the Jaccard similarity of the two texts is below sim_threshold; with a
\* timestamp absent, the similarity test alone decides.
C3_ProposedIffGapOrDissimilar ==
    pc = "proposed" =>
        /\ Range(breaks) = {i \in 1..(Len(pages) - 1) : C3_Claimed(i)}
        /\ \A i \in 1..(Len(pages) - 1) :
               (pages[i].timestamp = <<>> \/ pages[i + 1].timestamp = <<>>) =>
                   (i \in Range(breaks) <=>
                        RatLess(JaccardSimilarity(pages[i].text, pages[i + 1].text),
                                args.sim_threshold))

\* a proposal with a boundary due to the gap alone, and a pair of pages with an
\* absent timestamp that the similarity test keeps together
C3_Witness ==
    /\ pc = "proposed"
    /\ Len(pages) = 3
    /\ \E i \in Range(breaks) :
           ~RatLess(JaccardSimilarity(pages[i].text, pages[i + 1].text),
                    args.sim_threshold)
    /\ \E i \in 1..(Len(pages) - 1) :
           /\ pages[i].timestamp = <<>>
           /\ i \notin Range(breaks)


\* thresholds to compare the run's thresholds with
OtherGapThresholds == {StrictTimeGapSeconds, ChinaTimeGapSeconds, LongGap}
OtherSimThresholds == {<<0, 1>>, StrictSimThreshold, <<1, 2>>, <<1, 1>>}

\* the final boundary lists of the same pages and override file under the
\* thresholds gap2 and sim2, one per iteration order of the forced set
BoundariesUnder(gap2, sim2) ==
    {ApplyOverrides(ProposeBreakpoints(pages, gap2, sim2), pages, args.overrides, order) :
        order \in ForcedOrders(args.overrides)}

\* C4: threshold monotonicity. For the same pages and override file, a
\* similarity threshold that is not larger together with a time-gap threshold
\* that is not smaller gives a boundary set that is a subset, and so no more
\* groups.
C4_ThresholdMonotonicity ==
    pc = "grouped" =>
        \A gap2 \in OtherGapThresholds, sim2 \in OtherSimThresholds :
            (gap2 >= args.time_gap_seconds /\ ~RatLess(args.sim_threshold, sim2)) =>
                \A b2 \in BoundariesUnder(gap2, sim2) :
                    /\ Range(b2) \subseteq Range(breaks)
                    /\ Len(GroupPages(pages, b2)) <= Len(groups)

\* a run with a forced boundary whose groups merge under weaker thresholds
C4_Witness ==
    /\ pc = "grouped"
    /\ Len(ovTrace[2]) > Len(ovTrace[1])
    /\ \E gap2 \in OtherGapThresholds, sim2 \in OtherSimThresholds :
           /\ gap2 >= args.time_gap_seconds
           /\ ~RatLess(args.sim_threshold, sim2)
           /\ \E b2 \in BoundariesUnder(gap2, sim2) :
                  Len(GroupPages(pages, b2)) < Len(groups)

\* break_after is an array of strings
WellFormed(file) ==
    /\ file.kind = "object"
    /\ file.t = "array"
    /\ \A i \in DOMAIN file.items : file.items[i].t = "str"

\* C5: with a well-formed override file, every boundary given to
\* apply_overrides is in the list it returns, and for every base id of
\* break_after that names a page at index idx with idx + 1 <= len(pages) - 1,
\* idx + 1 is in the returned list.
C5_OverridesAreUnion ==
    (pc = "overridden" /\ WellFormed(args.overrides)) =>
        /\ Range(ovTrace[1]) \subseteq Range(ovTrace[2])
        /\ \A k \in DOMAIN args.overrides.items :
               \A idx \in 0..(Len(pages) - 2) :
                   pages[idx + 1].base = args.overrides.items[k].s =>
                       (idx + 1) \in Range(ovTrace[2])

\* the file exists and is not a JSON object whose break_after is an array of
\* base-id strings
Malformed(file) ==
    /\ file.kind \notin {"nopath", "missing"}
    /\ file.t # "absent"
    /\ ~WellFormed(file)

\* the same elements, each as many times
SameElements(xs, ys) == SortInts(xs) = SortInts(ys)

\* C7: for an override file that exists but is malformed, apply_overrides
\* returns the breakpoint list with exactly the elements it was given.
C7_MalformedOverridesIgnored ==
    (pc = "overridden" /\ Malformed(args.overrides)) =>
        SameElements(ovTrace[1], ovTrace[2])


\* C6: override idempotence. apply_overrides applied to its own result, with
\* the same pages and file, returns the list the first application returned.
C6_OverrideIdempotence ==
    pc = "reapplied" => ovTrace[3] = ovTrace[2]

\* a second application after a first one that added a forced boundary to a
\* list that was unsorted or held a duplicate
C6_Witness ==
    /\ pc = "reapplied"
    /\ Len(ovTrace[2]) > Len(ovTrace[1])
    /\ ovTrace[1] # SortInts(ovTrace[1]) \/ Cardinality(Range(ovTrace[1])) < Len(ovTrace[1])

\* every gap between adjacent timestamps is at most the run's threshold
GapsWithinThreshold ==
    \A i \in 1..(Len(pages) - 1) :
        (pages[i].timestamp # <<>> /\ pages[i + 1].timestamp # <<>>) =>
            pages[i + 1].timestamp[1] - pages[i].timestamp[1] <= args.time_gap_seconds

\* C8: single-group mode. With sim_threshold = 0 and a time_gap_threshold at
\* least as large as every gap between adjacent timestamps, propose_breakpoints
\* returns no boundary, and without overrides group_pages returns exactly one
\* group, L0001, holding all pages.
C8_SingleGroupMode ==
    (args.sim_threshold[1] = 0 /\ GapsWithinThreshold) =>
        /\ pc = "proposed" => breaks = <<>>
        /\ (pc = "grouped" /\ args.overrides.kind = "nopath") =>
               groups = << [id |-> <<"L", "0", "0", "0", "1">>,
                            pages |-> [i \in DOMAIN pages |-> PageDict(pages[i])]] >>

\* three pages, two of them with timestamps, in one group
C8_Witness ==
    /\ pc = "grouped"
    /\ args.overrides.kind = "nopath"
    /\ args.sim_threshold[1] = 0
    /\ GapsWithinThreshold
    /\ Len(pages) = 3
    /\ \E i \in 1..2 : pages[i].timestamp # <<>> /\ pages[i + 1].timestamp # <<>>
    /\ Len(groups) = 1

\* C9: the Chinese pipeline with its default thresholds and no override file
\* produces exactly one group, whatever the pages and their capture times.
C9_ChinaDefaultsOneGroup ==
    (/\ pc = "grouped"
     /\ args.time_gap_seconds = ChinaTimeGapSeconds
     /\ args.sim_threshold = ChinaSimThreshold
     /\ args.overrides.kind = "nopath") =>
        Len(groups) = 1

\* C10: determinism. A second run on the same images, texts, timestamps,
\* thresholds and override file produces the same sequence of group ids, the
\* same pages in the same order in each group, and the same text for each.
C10_RerunSameOutput ==
    (pc = "done" /\ prev # <<>>) =>
        /\ groups = prev[1].groups
        /\ [k \in DOMAIN groups |-> letters[groups[k].id].text]
               = [k \in DOMAIN prev[1].groups |->
                     prev[1].letters[prev[1].groups[k].id].text]

\* a second run that ended with several groups over two images with the same
\* base and capture time, and two forced boundaries
C10_Witness ==
    /\ pc = "done"
    /\ prev # <<>>
    /\ Len(groups) >= 2
    /\ \E i, j \in DOMAIN pages :
           /\ i # j
           /\ pages[i].base = pages[j].base
           /\ pages[i].timestamp = pages[j].timestamp
    /\ Cardinality(Range(args.overrides.items)) = 2

\* C11: base ids are unique within a run: the pages build_pages makes of the
\* files _list_images accepts have pairwise distinct base values.
C11_BaseIdsUnique ==
    pc = "built" =>
        \A i, j \in DOMAIN pages : i # j => pages[i].base # pages[j].base

\* a <= b on strings, by code points
StrLessEq(a, b) == ~KeyLess(StrKey(b), StrKey(a))

\* the time a page sorts by: an absent timestamp counts as datetime.min
TimeOrMin(pg) == IF pg.timestamp = <<>> THEN DatetimeMin ELSE pg.timestamp[1]

\* one page per input image path, in non-decreasing order of (timestamp, base)
\* with an absent timestamp as the earliest value, pages of equal timestamp in
\* order of base id
OnePagePerPathSorted ==
    /\ Len(pages) = Len(images)
    /\ \A k \in DOMAIN images :
           Cardinality({i \in DOMAIN pages : pages[i].image_path = images[k]}) = 1
    /\ \A i, j \in DOMAIN pages :
           i < j =>
              \/ TimeOrMin(pages[i]) < TimeOrMin(pages[j])
              \/ /\ TimeOrMin(pages[i]) = TimeOrMin(pages[j])
                 /\ StrLessEq(pages[i].base, pages[j].base)

\* C12 as stated: build_pages returns one page per input image path, ordered
\* non-decreasingly by (timestamp, base) with an absent timestamp as the
\* earliest value; every page without a timestamp is placed no later than any
\* page with one, and pages with equal timestamps are ordered by base id.
C12_AbsentBeforeEveryPresent ==
    pc = "built" =>
        /\ OnePagePerPathSorted
        /\ \A i, j \in DOMAIN pages :
               (pages[i].timestamp = <<>> /\ pages[j].timestamp # <<>>) => i < j

\* C12 as amended: the same, but a page without a timestamp is placed no later
\* than any page whose timestamp is later than datetime.min; a page whose
\* timestamp is datetime.min ties with the pages without one, and the base id
\* decides.
C12_SortedAbsentAsEarliest ==
    pc = "built" =>
        /\ OnePagePerPathSorted
        /\ \A i, j \in DOMAIN pages :
               (/\ pages[i].timestamp = <<>>
                /\ pages[j].timestamp # <<>>
                /\ pages[j].timestamp[1] > DatetimeMin) => i < j

\* three pages: one dated datetime.min ahead of one without a timestamp, and a
\* later one after both
C12_Witness ==
    /\ pc = "built"
    /\ Len(pages) = 3
    /\ pages[1].timestamp = <<DatetimeMin>>
    /\ pages[2].timestamp = <<>>
    /\ pages[3].timestamp # <<>>
    /\ pages[3].timestamp[1] > DatetimeMin

\* the timestamps and texts of a sequence of page dicts, looked up by base
PagesShown(page_dicts) ==
    [j \in DOMAIN page_dicts |->
        [t |-> page_dicts[j].timestamp[1][2],
         text |-> german_text_by_base[page_dicts[j].base]]]

\* C13: for P1 (t=0s, 'hello world'), P2 (t=60s, 'hello world again') and
\* P3 (t=10000s, 'completely unrelated content') with time_gap_threshold 180,
\* sim_threshold 0.3 and no overrides, propose_breakpoints returns exactly [2]
\* and group_pages returns L0001 = {P1, P2}, L0002 = {P3}.
C13_ExampleScenario ==
    /\ pc = "proposed" => breaks = <<2>>
    /\ pc = "grouped" =>
          /\ Len(groups) = 2
          /\ groups[1].id = <<"L", "0", "0", "0", "1">>
          /\ PagesShown(groups[1].pages) = <<ExamplePages[1], ExamplePages[2]>>
          /\ groups[2].id = <<"L", "0", "0", "0", "2">>
          /\ PagesShown(groups[2].pages) = <<ExamplePages[3]>>

\* the example grouped, with P1 in the file that sorts last by name and dated
\* by its modification time
C13_Witness ==
    /\ pc = "grouped"
    /\ Len(groups) = 2
    /\ groups[1].pages[1].base = <<"c">>
    /\ stamp[groups[1].pages[1].image_path].exif = "none"
    /\ JaccardSimilarity(pages[1].text, pages[2].text) = <<2, 3>>

\* the case-folded token set of a text: the maximal runs of letters and digits
TokenSet(text) ==
    {LowerStr(SubSeq(text, i, j)) : <<i, j>> \in
        {ij \in (DOMAIN text) \X (DOMAIN text) :
            /\ ij[1] <= ij[2]
            /\ \A k \in ij[1]..ij[2] : IsWordChar(text[k])
            /\ ij[1] = 1 \/ ~IsWordChar(text[ij[1] - 1])
            /\ ij[2] = Len(text) \/ ~IsWordChar(text[ij[2] + 1])}}

\* what C14 says of the similarity sim of the texts a and b
C14_Claimed(a, b, sim) ==
    LET A == TokenSet(a)
        B == TokenSet(b)
    IN  /\ sim[2] > 0
        /\ 0 <= sim[1]
        /\ sim[1] <= sim[2]
        /\ (A = {} \/ B = {}) => sim[1] = 0
        /\ (A # {} /\ B # {}) =>
               sim[1] * Cardinality(A \cup B) = Cardinality(A \cap B) * sim[2]

\* C14: jaccard_similarity of two texts is |A n B| / |A u B| over their
\* case-folded token sets A and B, lies in [0, 1], is 0 when A or B is empty,
\* and never divides by zero. The similarity computed for the two pages decides
\* the boundary between them when no timestamp is present.
C14_JaccardOverTokenSets ==
    (pc = "proposed" /\ Len(pages) = 2) =>
        LET sim == JaccardSimilarity(pages[1].text, pages[2].text)
        IN  /\ C14_Claimed(pages[1].text, pages[2].text, sim)
            /\ (breaks = <<1>>) <=> RatLess(sim, args.sim_threshold)

\* two pages whose texts differ in case and punctuation and share one of two
\* tokens
C14_Witness ==
    /\ pc = "proposed"
    /\ Len(pages) = 2
    /\ pages[1].text = <<"X">>
    /\ pages[2].text = <<"Y", ".", "x", " ", "x">>
    /\ JaccardSimilarity(pages[1].text, pages[2].text) = <<1, 2>>

DecimalDigit(d) == <<"0", "1", "2", "3", "4", "5", "6", "7", "8", "9">>[d + 1]

\* 'L' followed by k written with four decimal digits, for k below 10000
PositionalId(k) ==
    << "L", DecimalDigit((k \div 1000) % 10), DecimalDigit((k \div 100) % 10),
       DecimalDigit((k \div 10) % 10), DecimalDigit(k % 10) >>

\* group counts at which the number of digits changes
GroupCounts == {1, 9, 10, 11, 99, 100, 101, 999, 1000, 9999}

\* C15: group ids are positional. The k-th group returned by group_pages has
\* the id 'L' followed by k zero-padded to four digits, whatever the pages and
\* the boundary list (unsorted, repeated, out of range), so the ids are
\* L0001..L000m without gap or repeat.
C15_GroupIdsPositional ==
    /\ pc = "grouped" =>
          \A k \in DOMAIN groups : groups[k].id = PositionalId(k)
    /\ \A k \in GroupCounts : GroupId(k) = PositionalId(k)

\* several groups made from a boundary list holding a value that is skipped
C15_Witness ==
    /\ pc = "grouped"
    /\ Len(groups) >= 2
    /\ \E i \in DOMAIN breaks : breaks[i] <= 0
    /\ \E i \in DOMAIN breaks : breaks[i] > Len(pages)

\* the lines of a text whose only line separator is "\n"
LinesOf(text) ==
    LET seps == {i \in DOMAIN text : text[i] = "\n"}
        Sep(k) == IF k = 0 THEN 0
                  ELSE IF k > Cardinality(seps) THEN Len(text) + 1
                  ELSE CHOOSE i \in seps : Cardinality({j \in seps : j < i}) = k - 1
    IN  [k \in 1..(Cardinality(seps) + 1) |-> SubSeq(text, Sep(k - 1) + 1, Sep(k) - 1)]

\* <<b, e>> such that ln[1..e] is white space, one to four digits ending at b,
\* '.' or ')', and all the white space that follows, at least one character
NumberPrefixes(ln) ==
    LET marks == {b \in 1..(Len(ln) - 2) :
                     /\ ln[b + 1] \in {".", ")"}
                     /\ ln[b + 2] \in SpaceChars
                     /\ \E a \in 0..(b - 1) :
                            /\ b - a <= 4
                            /\ \A i \in 1..a : ln[i] \in SpaceChars
                            /\ \A i \in (a + 1)..b : ln[i] \in DigitChars}
    IN  {be \in marks \X (3..Len(ln)) :
            /\ be[1] + 2 <= be[2]
            /\ \A i \in (be[1] + 2)..be[2] : ln[i] \in SpaceChars
            /\ be[2] = Len(ln) \/ ln[be[2] + 1] \notin SpaceChars}

IsNumbered(ln) == NumberPrefixes(ln) # {}

\* the number of a numbered line, for numbers of one digit
NumberOf(ln) ==
    LET b == (CHOOSE be \in NumberPrefixes(ln) : TRUE)[1]
    IN  CHOOSE n \in 0..9 : DecimalDigit(n) = ln[b]

\* the line without its number
Unnumbered(ln) ==
    IF IsNumbered(ln)
    THEN SubSeq(ln, (CHOOSE be \in NumberPrefixes(ln) : TRUE)[2] + 1, Len(ln))
    ELSE ln

\* for each line its number, or -1 when the line is not numbered
RECURSIVE NumbersOf(_)
NumbersOf(lines) ==
    IF lines = <<>> THEN <<>>
    ELSE <<IF IsNumbered(Head(lines)) THEN NumberOf(Head(lines)) ELSE 0 - 1>>
             \o NumbersOf(Tail(lines))

\* lines i..j are numbered, start at 1 or 2 and count up by one
IsInjectedRun(nums, i, j) ==
    /\ j - i + 1 >= 4
    /\ nums[i] \in {1, 2}
    /\ \A k \in i..j : nums[k] = nums[i] + (k - i)

\* the lines that are part of a run of four or more
InjectedLines(nums) ==
    {k \in DOMAIN nums :
        \E i \in 1..k, j \in k..Len(nums) : IsInjectedRun(nums, i, j)}

\* the text of the page and the text written for its letter
CleanInput == german_text_by_base[BaseOf(CleanFile)]
CleanOutput == letters[groups[1].id].text

\* C16: _clean_leading_numbering removes the 'N.' / 'N)' prefixes if and only
\* if the text has a run of at least 4 consecutive lines numbered upwards by 1
\* from 1 or 2: with such a run the lines of the run lose their prefixes, and
\* without one the text comes back with every prefix in place.
C16_StripsIffLongRun ==
    pc = "done" =>
        LET lines == LinesOf(CleanInput)
            out == LinesOf(CleanOutput)
            injected == InjectedLines(NumbersOf(lines))
        IN  /\ injected = {} => CleanOutput = CleanInput
            /\ injected # {} =>
                   /\ Len(out) = Len(lines)
                   /\ \A k \in injected : out[k] = Unnumbered(lines[k])
                   /\ CleanOutput # CleanInput

\* the run 2) 3. 4. 5. stripped, with white space around the numbers
C16_Witness ==
    /\ pc = "done"
    /\ LinesOf(CleanInput) = << <<"2", ")", " ", "x">>, <<" ", "3", ".", " ", " ", "x">>, <<"4", ".", " ", "x">>, <<"5", ".", " ", "x">> >>
    /\ CleanOutput = <<"x", "\n", "x", "\n", "x", "\n", "x">>

\* C17: shorter numeric runs are preserved. A numbered line that is only part
\* of a run of fewer than 4 lines, or of a run that does not start at 1 or 2,
\* keeps its prefix in the output, also when the text holds a separate run of
\* 4 or more lines that is stripped.
C17_ShortRunsKeepPrefix ==
    pc = "done" =>
        LET lines == LinesOf(CleanInput)
            out == LinesOf(CleanOutput)
            nums == NumbersOf(lines)
            injected == InjectedLines(nums)
        IN  /\ Len(out) = Len(lines)
            /\ \A k \in DOMAIN lines :
                   (nums[k] >= 0 /\ k \notin injected) => out[k] = lines[k]

\* the text build_pages gave the page that a page dict of a group stands for
PageTextOf(page_dict) ==
    pages[CHOOSE i \in DOMAIN pages : pages[i].image_path = page_dict.image_path].text

\* the cleaned texts of the pages of a group, in the order of its meta record
CleanedParts(g) ==
    [j \in DOMAIN g.pages |-> CleanLeadingNumbering(PageTextOf(g.pages[j]))]

\* the number of characters in the first n of the parts
RECURSIVE LengthBefore(_, _)
LengthBefore(parts, n) ==
    IF n = 0 THEN 0 ELSE LengthBefore(parts, n - 1) + Len(parts[n])

FieldParses(v) == v.kind = "str" /\ v.fmt \in DateFormats

\* the embedded fields of a file that can be read at all
ReadableFields(meta) == IF meta.exif = "tags" THEN meta.tags ELSE <<>>

\* C19: the timestamp build_pages gives a page is the first value that parses
\* among DateTimeOriginal, DateTimeDigitized, DateTime; the file's modification
\* time if no field parses or the metadata is unreadable; absent if that is
\* unavailable too; build_pages returns a page for every listed image.
C19_TimestampFallbackChain ==
    pc \in {"built", "proposed", "overridden", "grouped", "done"} /\ images # <<>> =>
        /\ Len(pages) = Len(images)
        /\ \A i \in DOMAIN pages :
               LET meta == stamp[pages[i].image_path]
                   fields == ReadableFields(meta)
                   parsing == {k \in DOMAIN fields : FieldParses(fields[k])}
               IN  IF parsing # {}
                   THEN \E k \in parsing :
                           /\ \A j \in parsing : k <= j
                           /\ pages[i].timestamp = Some(fields[k].t)
                   ELSE pages[i].timestamp = meta.mtime

\* DateTimeOriginal holds a string that does not parse, DateTimeDigitized and
\* DateTime both parse, and the page carries the time of DateTimeDigitized
C19_Witness ==
    /\ pc = "built"
    /\ \E i \in DOMAIN pages :
           LET meta == stamp[pages[i].image_path]
           IN  /\ meta.exif = "tags"
               /\ meta.tags[1] = Tag("str", 0, 0)
               /\ FieldParses(meta.tags[2])
               /\ FieldParses(meta.tags[3])
               /\ meta.mtime # None
               /\ pages[i].timestamp = Some(meta.tags[2].t)

\* C20: when the input directory holds no image file the run stops after the
\* listing, before OCR, grouping and output: it builds no page and no group,
\* and the letters (text and meta.json of each group directory) are what they
\* were before the run.
C20_NoImageStops ==
    (pc # "start" /\ DOMAIN stamp \subseteq OtherNames) =>
        /\ pc = "done"
        /\ images = <<>>
        /\ pages = <<>>
        /\ groups = <<>>
        /\ letters = Value(prev).letters

\* a run over a directory that holds files but no image ended, and the letter
\* left by an earlier run is still there
C20_Witness ==
    /\ pc = "done"
    /\ DOMAIN stamp # {}
    /\ DOMAIN stamp \subseteq OtherNames
    /\ letters = LeftLetters
    /\ run = MaxRuns

\* the page dicts of all groups, one group after the other
RECURSIVE PagesOfGroups(_)
PagesOfGroups(grps) ==
    IF grps = <<>> THEN <<>> ELSE Head(grps).pages \o PagesOfGroups(Tail(grps))

\* C21: for every list of integer boundaries (duplicates, zero, negative values
\* and values greater than or equal to len(pages) included) every group
\* returned by group_pages holds at least one page and the groups partition the
\* page sequence.
C21_BadBoundariesGuarded ==
    pc = "grouped" =>
        /\ \A k \in DOMAIN groups : Len(groups[k].pages) >= 1
        /\ PagesOfGroups(groups) = [i \in DOMAIN pages |-> PageDict(pages[i])]

\* C22: the boundary list that propose_breakpoints followed by apply_overrides
\* hands to group_pages is strictly increasing (so without duplicate) and every
\* index in it lies in 1..len(pages)-1.
C22_PipelineBoundariesWellFormed ==
    pc = "overridden" =>
        /\ \A k \in 1..(Len(breaks) - 1) : breaks[k] < breaks[k + 1]
        /\ \A k \in DOMAIN breaks : breaks[k] \in 1..(Len(pages) - 1)

\* the override file forced a boundary below the one that was proposed
C22_Witness ==
    /\ pc = "overridden"
    /\ Len(breaks) = 2
    /\ ovTrace[1] = <<breaks[2]>>
    /\ breaks[1] < breaks[2]

\* the base ids an override file names: the strings of its break_after array,
\* or the string itself when break_after is a string
NamedBases(file) ==
    IF file.kind # "object" THEN {}
    ELSE IF file.t = "array"
         THEN {file.items[i].s : i \in {j \in DOMAIN file.items : file.items[j].t = "str"}}
    ELSE IF file.t = "string" THEN {file.s}
    ELSE {}

\* C23: apply_overrides adds nothing beyond the forced boundaries: every index
\* of the returned list is in the input list or is idx+1 for a named page at
\* index idx that is not the last page.
C23_OnlyForcedBoundariesAdded ==
    pc = "overridden" =>
        \A b \in Range(ovTrace[2]) :
            \/ b \in Range(ovTrace[1])
            \/ \E i \in 1..(Len(pages) - 1) :
                  /\ pages[i].base \in NamedBases(args.overrides)
                  /\ b = i

\* what propose_breakpoints decides for two pages taken on their own
PairProposed(before, page) ==
    ProposeBreakpoints(<<before, page>>, args.time_gap_seconds, args.sim_threshold) = <<1>>

\* C24: whether a boundary is proposed at index i depends only on pages[i-1]
\* and pages[i] and the two thresholds: it is what propose_breakpoints decides
\* for these two pages alone, whatever the other pages and the boundaries
\* proposed at earlier indices are.
C24_ProposalIsLocal ==
    pc = "proposed" =>
        \A i \in 1..(Len(pages) - 1) :
            (i \in Range(breaks)) <=> PairProposed(pages[i], pages[i + 1])

\* three pages 100 seconds apart with texts that share a word with the next
\* page but not with the one after it: no boundary, although the third page is
\* far from the first in time and in words
C24_Witness ==
    /\ pc = "proposed"
    /\ Len(pages) = 3
    /\ breaks = <<>>
    /\ args.time_gap_seconds = StrictTimeGapSeconds
    /\ pages[1].timestamp = Some(0)
    /\ pages[3].timestamp = Some(200)
    /\ RatLess(JaccardSimilarity(pages[1].text, pages[3].text), args.sim_threshold)

\* C25: after build_pages returns, propose_breakpoints, apply_overrides and
\* group_pages leave the page sequence (its order and every field of every
\* page) unchanged, and apply_overrides changes only the boundary list.
C25_PagesNeverMutated ==
    [][/\ pc \in {"built", "proposed", "overridden"} => pages' = pages
       /\ pc = "proposed" => (groups' = groups /\ letters' = letters /\ images' = images)]_vars

\* group_pages has returned several groups over boundaries the override file
\* changed, and the pages are still those build_pages returned
C25_Witness ==
    /\ pc = "grouped"
    /\ Len(groups) >= 2
    /\ ovTrace[2] # ovTrace[1]
    /\ pages # <<>>
    /\ \E listing \in Orders(DOMAIN stamp) :
           pages = BuildPages(ListImages(listing), stamp, german_text_by_base)

\* C26: given no override path, or the path of a file that does not exist,
\* apply_overrides returns the list it was given, with the same elements in
\* the same order.
C26_NoOverrideFileReturnsInput ==
    (pc \in {"overridden", "reapplied"} /\ args.overrides.kind \in {"nopath", "missing"}) =>
        /\ breaks = ovTrace[1]
        /\ \A k \in DOMAIN ovTrace : ovTrace[k] = ovTrace[1]

\* the override file does not exist and the list came back as it was given,
\* out of order and with a value beyond the last page
C26_Witness ==
    /\ pc = "overridden"
    /\ args.overrides.kind = "missing"
    /\ Len(pages) = 2
    /\ ovTrace[1] = <<3, 1>>
    /\ breaks = <<3, 1>>

\* a text in which _tokenize finds no token: it holds no letter and no digit
Tokenless(text) == \A j \in DOMAIN text : ~IsWordChar(text[j])

\* C27: with sim_threshold > 0 every page whose text has no token is alone in
\* its group: a boundary is proposed before it (unless it is the first page)
\* and after it (unless it is the last), whatever the timestamps are.
C27_TokenlessPagesAlone ==
    (pc = "grouped" /\ RatLess(<<0, 1>>, args.sim_threshold)) =>
        \A i \in DOMAIN pages :
            Tokenless(pages[i].text) =>
                /\ i > 1 => (i - 1) \in Range(ovTrace[1])
                /\ i < Len(pages) => i \in Range(ovTrace[1])
                /\ \E k \in DOMAIN groups : groups[k].pages = <<PageDict(pages[i])>>

\* three pages taken at the same time, the texts of the second and the third
\* without a token: each of the two is a group of its own
C27_Witness ==
    /\ pc = "grouped"
    /\ Len(pages) = 3
    /\ \A i \in 1..3 : pages[i].timestamp = Some(0)
    /\ ~Tokenless(pages[1].text)
    /\ pages[2].text = <<" ", ".">>
    /\ pages[3].text = <<>>
    /\ Len(groups) = 3

\* the positions in ocr_calls of the calls a step adds
NewCalls == (Len(ocr_calls) + 1)..Len(ocr_calls')

\* OCR was called for the page's transcription in the run r
CalledIn(r, base, calls) ==
    \E k \in DOMAIN calls : calls[k].run = r /\ BaseOf(calls[k].image) = base

\* C28: transcription files are write-once across runs: a file that exists
\* (an empty one written after an OCR call raised included) is never changed
\* or removed, OCR is never called for an image whose file exists, and in
\* every later run the text of the page is the content read from that file.
C28_TranscriptionsWriteOnce ==
    [][/\ \A b \in DOMAIN german_dir :
             b \in DOMAIN german_dir' /\ german_dir'[b] = german_dir[b]
       /\ \A k \in NewCalls :
             /\ BaseOf(ocr_calls'[k].image) \notin DOMAIN german_dir
             /\ \A j \in NewCalls : j # k =>
                    BaseOf(ocr_calls'[j].image) # BaseOf(ocr_calls'[k].image)
       /\ pc' = "built" =>
             \A i \in DOMAIN pages' :
                 (/\ pages'[i].base \in DOMAIN german_dir'
                  /\ ~CalledIn(run', pages'[i].base, ocr_calls')) =>
                     pages'[i].text = ReadText(german_dir'[pages'[i].base])]_vars

\* the OCR call of the first run raised and left an empty file; the second run
\* has a key and no --skip-ocr, makes no call and takes the empty text
C28_Witness ==
    /\ run = 2
    /\ pc = "built"
    /\ ~args.skip_ocr
    /\ args.api_key
    /\ ocr_calls # <<>>
    /\ \A k \in DOMAIN ocr_calls : ocr_calls[k].run = 1 /\ ocr_calls[k].out = None
    /\ \A i \in DOMAIN pages :
           /\ CalledIn(1, pages[i].base, ocr_calls)
           /\ german_dir[pages[i].base] = <<>>
           /\ pages[i].text = <<>>

\* the group directories that list the page at image_path in their meta.json
ListedIn(image_path) ==
    {id \in DOMAIN letters :
        \E j \in DOMAIN letters[id].meta.pages :
            letters[id].meta.pages[j].image_path = image_path}

\* C29: after any sequence of runs that write to the same letters directory
\* over the same pages, with whatever thresholds, the group directories that
\* hold a meta.json are exactly the groups of the most recent run, and every
\* page is listed in exactly one persisted meta.json.
C29_LettersAreLatestGroups ==
    (pc = "done" /\ groups # <<>>) =>
        /\ DOMAIN letters = {groups[k].id : k \in DOMAIN groups}
        /\ \A i \in DOMAIN pages : Cardinality(ListedIn(pages[i].image_path)) = 1

\* the text extract_german_text returned in the current run for the page of
\* each page dict, one after the other
RECURSIVE CleanedOnce(_)
CleanedOnce(page_dicts) ==
    IF page_dicts = <<>> THEN <<>>
    ELSE LET k == CHOOSE k \in DOMAIN ocr_calls :
                      /\ ocr_calls[k].run = run
                      /\ BaseOf(ocr_calls[k].image) = Head(page_dicts).base
         IN  OcrText(ocr_calls[k].out) \o CleanedOnce(Tail(page_dicts))

\* C30: _clean_leading_numbering is idempotent: applied at OCR time and again
\* at assembly time it gives the text that one application gives, so the text
\* of a letter is the texts extract_german_text returned for its pages.
C30_CleaningTwiceIsCleaningOnce ==
    pc = "done" =>
        \A g \in DOMAIN groups :
            (\A j \in DOMAIN groups[g].pages :
                 CalledIn(run, groups[g].pages[j].base, ocr_calls)) =>
                letters[groups[g].id].text = CleanedOnce(groups[g].pages)

====
